---- MODULE Spec2Model ----
(***************************************************************************)
(* Model of arXiv/process.py: the crawler that fetches papers by keyword,  *)
(* filters them by category, deduplicates them against db.txt and merges   *)
(* them into one markdown document per update year.                        *)
(*                                                                         *)
(* Text is a sequence of one-character strings.  A struct_time is the      *)
(* tuple <<tm_year, tm_mon, tm_mday, tm_isdst>> (the time of day is folded *)
(* into tm_mday; tm_wday and tm_yday are functions of the date).  The text *)
(* '%Y-%m-%d %H:%M:%S' of a struct_time is the tuple <<year, mon, mday>>.  *)
(***************************************************************************)
EXTENDS Integers, Sequences, FiniteSets, TLC

\* ------------------------------------------------------------------------
\* Bounds of the model
\* ------------------------------------------------------------------------
\* number of crawler runs in a behaviour
MaxRuns == 2
\* number of results the fetch adapter yields, over a whole behaviour
\* (results replayed from a recorded run are not counted)
MaxFetch == 3
\* results one keyword's search yields at most (the max_results setting)
MaxResults == 2
\* results a run yields while its fetch events are recorded for a replay
MaxRecorded == 1
\* length of the record lists the render and parse round trip is applied to
MaxLen == 2

\* ------------------------------------------------------------------------
\* Text helpers
\* ------------------------------------------------------------------------
NL == "\n"

NoNewline(s) == \A i \in 1..Len(s) : s[i] # NL

\* str.replace('\n', ' ')
ReplaceNewline(s) == [i \in 1..Len(s) |-> IF s[i] = NL THEN " " ELSE s[i]]

\* ', '.join(names)
RECURSIVE Join(_)
Join(names) ==
    IF names = <<>> THEN <<>>
    ELSE IF Len(names) = 1 THEN names[1]
    ELSE names[1] \o <<",", " ">> \o Join(Tail(names))

\* first index i with s[i..i+1] = ', ', or 0
SepAt(s) ==
    LET hits == {i \in 1..(Len(s) - 1) : s[i] = "," /\ s[i + 1] = " "}
    IN  IF hits = {} THEN 0 ELSE CHOOSE i \in hits : \A j \in hits : i <= j

\* text.split(', ')
RECURSIVE Split(_)
Split(s) ==
    LET i == SepAt(s)
    IN  IF i = 0 THEN <<s>>
        ELSE <<SubSeq(s, 1, i - 1)>> \o Split(SubSeq(s, i + 2, Len(s)))

\* ------------------------------------------------------------------------
\* Time helpers
\* ------------------------------------------------------------------------
\* time.strftime('%Y-%m-%d %H:%M:%S', t): the text drops tm_isdst
strftime(t) == <<t[1], t[2], t[3]>>

\* time.strptime(text, '%Y-%m-%d %H:%M:%S'): tm_isdst is -1 (unknown)
strptime(s) == <<s[1], s[2], s[3], -1>>

\* updated.rsplit('-', 1)[0]: the 'YYYY-MM' prefix of the text
YearMonth(updated) == <<updated[1], updated[2]>>

\* tuple comparison a < b, as Python compares struct_time values and
\* fixed-width strings
RECURSIVE TupleLess(_, _)
TupleLess(a, b) ==
    IF a = <<>> \/ b = <<>> THEN a = <<>> /\ b # <<>>
    ELSE IF a[1] # b[1] THEN a[1] < b[1]
    ELSE TupleLess(Tail(a), Tail(b))

\* ------------------------------------------------------------------------
\* sorted(): stable, ascending by key
\* ------------------------------------------------------------------------
\* InsertByUpdated that puts a record in front of the records of the same
\* key: a sort that is not stable
RECURSIVE InsertBeforeTies(_, _)
InsertBeforeTies(x, seq) ==
    IF seq = <<>> THEN <<x>>
    ELSE IF ~TupleLess(seq[Len(seq)].updated_sorted, x.updated_sorted)
         THEN InsertBeforeTies(x, SubSeq(seq, 1, Len(seq) - 1)) \o <<seq[Len(seq)]>>
         ELSE seq \o <<x>>

RECURSIVE InsertByUpdated(_, _)
InsertByUpdated(x, seq) ==
    IF seq = <<>> THEN <<x>>
    ELSE IF TupleLess(x.updated_sorted, seq[Len(seq)].updated_sorted)
         THEN InsertByUpdated(x, SubSeq(seq, 1, Len(seq) - 1)) \o <<seq[Len(seq)]>>
         ELSE seq \o <<x>>

\* SortResults with the sort left out: the list stays in insertion order
SortResultsOmitted(results) == results

\* sorted(results, key=lambda item: item['updated_sorted'])
RECURSIVE SortResults(_)
SortResults(results) ==
    IF results = <<>> THEN <<>>
    ELSE InsertByUpdated(results[Len(results)],
                         SortResults(SubSeq(results, 1, Len(results) - 1)))

RECURSIVE InsertText(_, _)
InsertText(x, seq) ==
    IF seq = <<>> THEN <<x>>
    ELSE IF TupleLess(x, seq[Len(seq)])
         THEN InsertText(x, SubSeq(seq, 1, Len(seq) - 1)) \o <<seq[Len(seq)]>>
         ELSE seq \o <<x>>

\* sorted(toc)
RECURSIVE SortToc(_)
SortToc(toc) ==
    IF toc = <<>> THEN <<>>
    ELSE InsertText(toc[Len(toc)], SortToc(SubSeq(toc, 1, Len(toc) - 1)))

\* ------------------------------------------------------------------------
\* Document Renderer (crawler, lines 213-238)
\* ------------------------------------------------------------------------
\* The <details> block of one record: the texts the f-string embeds.  The
\* [abs] link is derived from short_id.
PaperBlock(result) ==
    [updated  |-> result.updated,
     title    |-> result.title,
     authors  |-> Join(result.authors),
     short_id |-> result.short_id,
     pdf_url  |-> result.pdf_url,
     summary  |-> result.summary]

\* TocOf without the test 'if ym not in toc': one entry per record
RECURSIVE TocOfEvery(_)
TocOfEvery(results) ==
    IF results = <<>> THEN <<>>
    ELSE Append(TocOfEvery(SubSeq(results, 1, Len(results) - 1)),
                YearMonth(results[Len(results)].updated))

\* toc after the loop over results: year-months in first-seen order
RECURSIVE TocOf(_)
TocOf(results) ==
    IF results = <<>> THEN <<>>
    ELSE LET toc == TocOf(SubSeq(results, 1, Len(results) - 1))
             ym  == YearMonth(results[Len(results)].updated)
         IN  IF \E i \in 1..Len(toc) : toc[i] = ym THEN toc ELSE Append(toc, ym)

\* content[ym].append(paper) on an insertion-ordered dict, kept as a
\* sequence of [ym, papers] in key insertion order
AppendContent(content, ym, paper) ==
    IF \E i \in 1..Len(content) : content[i].ym = ym
    THEN [i \in 1..Len(content) |->
            IF content[i].ym = ym
            THEN [content[i] EXCEPT !.papers = Append(@, paper)]
            ELSE content[i]]
    ELSE Append(content, [ym |-> ym, papers |-> <<paper>>])

RECURSIVE ContentOf(_)
ContentOf(results) ==
    IF results = <<>> THEN <<>>
    ELSE AppendContent(ContentOf(SubSeq(results, 1, Len(results) - 1)),
                       YearMonth(results[Len(results)].updated),
                       PaperBlock(results[Len(results)]))

\* The text written to <year>.md: the '# year' heading, the '## TOC' list
\* and one '## ym' section per key of content, each holding its blocks.
Render(year, results) ==
    [year     |-> year,
     toc      |-> SortToc(TocOf(results)),
     sections |-> ContentOf(results)]

\* ------------------------------------------------------------------------
\* Record Parser (load_markdown, lines 56-75)
\* ------------------------------------------------------------------------
\* all <details> blocks of a document, in file order
RECURSIVE Blocks(_)
Blocks(sections) ==
    IF sections = <<>> THEN <<>>
    ELSE sections[1].papers \o Blocks(Tail(sections))

\* The regular expression matches a block when every group can match:
\* '.' matches no newline; (.*) takes the title, (.+) the authors line, the
\* identifier, the pdf link and the summary, so these four must be non-empty.
BlockMatches(b) ==
    /\ NoNewline(b.title)
    /\ b.authors # <<>> /\ NoNewline(b.authors)
    /\ b.short_id # ""
    /\ b.pdf_url # <<>> /\ NoNewline(b.pdf_url)
    /\ b.summary # <<>> /\ NoNewline(b.summary)

ParseBlock(b) ==
    [title          |-> b.title,
     authors        |-> Split(b.authors),
     updated_sorted |-> strptime(b.updated),
     updated        |-> b.updated,
     summary        |-> b.summary,
     pdf_url        |-> b.pdf_url,
     short_id       |-> b.short_id]

RECURSIVE ParseBlocks(_)
ParseBlocks(blocks) ==
    IF blocks = <<>> THEN <<>>
    ELSE (IF BlockMatches(blocks[1]) THEN <<ParseBlock(blocks[1])>> ELSE <<>>)
         \o ParseBlocks(Tail(blocks))

load_markdown(doc) == ParseBlocks(Blocks(doc.sections))

\* ------------------------------------------------------------------------
\* Configuration (config.ini, read at lines 117-119) and the fetch adapter
\* ------------------------------------------------------------------------
\* query: subject -> key words, in the order of the JSON object.  Two
\* configurations are modelled: several subjects and keywords, and one of each.
QueryMany ==
    << [subject |-> "cv",  key_words |-> <<"detection", "tracking">>],
       [subject |-> "nlp", key_words |-> <<"parsing">>] >>

QueryOne == << [subject |-> "cv", key_words |-> <<"detection">>] >>

Subjects == {"cv", "nlp"}

subjectcategory == {"cs.CV", "cs.CL"}

Ids == {"2312.00001v1", "2401.00002v1"}

\* result.updated of a feed entry: feedparser's struct_time has tm_isdst 0
Times ==
    {<<2023, 12, 20, 0>>, <<2024, 1, 15, 0>>, <<2024, 1, 20, 0>>, <<2024, 3, 1, 0>>}

CategoryLists == {<<"math.CO", "cs.CV">>, <<"math.CO">>}

\* title, author names and summary of a feed entry
Plain == [title |-> <<"T">>, authors |-> << <<"A">>, <<"B">> >>,
          summary |-> <<"s", NL, "u">>]

NoAuthors == [title |-> <<"T">>, authors |-> <<>>, summary |-> <<"s">>]

NoSummary == [title |-> <<"T">>, authors |-> << <<"A">> >>, summary |-> <<>>]

Entries(ids, times, cats, contents) ==
    { [short_id |-> i, updated |-> t, categories |-> c,
       title |-> x.title, authors |-> x.authors, summary |-> x.summary] :
      i \in ids, t \in times, c \in cats, x \in contents }

\* what client.get(search) can yield: with several subjects, plain entries
\* of one time, inside and outside the configured categories; with one
\* subject, entries of every time, with and without a summary, inside the
\* categories
FeedMany == Entries(Ids, {<<2024, 1, 15, 0>>}, CategoryLists, {Plain})

FeedOne == Entries(Ids, Times, {<<"math.CO", "cs.CV">>}, {Plain, NoSummary})

Scenarios ==
    { [query |-> QueryMany, feed |-> FeedMany],
      [query |-> QueryOne,  feed |-> FeedOne] }

\* the exceptions the four handlers of lines 182-196 catch
FailureKinds ==
    {"UnexpectedEmptyPageError", "HTTPError", "RequestException", "Exception"}

\* result.get_pdf_url()
get_pdf_url(short_id) == <<"/", "p", "d", "f", "/", short_id>>

\* ------------------------------------------------------------------------
\* Steps of crawler on one fetched result (lines 150-173)
\* ------------------------------------------------------------------------
\* InCategory with the test left out: every result passes the filter
InCategoryAny(result) == TRUE

\* lines 152-156: some category of the result is in subjectcategory
InCategory(result) ==
    \E i \in 1..Len(result.categories) : result.categories[i] \in subjectcategory

\* AlreadySeen with the test left out: the SeenSet is never consulted
AlreadySeenNever(short_id, seen) == FALSE

\* line 160: short_id in db_set
AlreadySeen(short_id, seen) == short_id \in seen

\* lines 165-172
MakeOri(result) ==
    [title          |-> result.title,
     authors        |-> result.authors,
     updated_sorted |-> result.updated,
     updated        |-> strftime(result.updated),
     summary        |-> ReplaceNewline(result.summary),
     pdf_url        |-> get_pdf_url(result.short_id),
     short_id       |-> result.short_id]

\* AppendQueryResult that ignores the year once a first key exists
AppendQueryResultOneKey(qr, year, ori) ==
    IF qr = <<>> THEN <<[year |-> year, results |-> <<ori>>]>>
    ELSE [qr EXCEPT ![1].results = Append(@, ori)]

\* line 173: query_results[year].append(ori) on a defaultdict(list), kept as
\* a sequence of [year, results] in key insertion order
AppendQueryResult(qr, year, ori) ==
    IF \E i \in 1..Len(qr) : qr[i].year = year
    THEN [i \in 1..Len(qr) |->
            IF qr[i].year = year
            THEN [qr[i] EXCEPT !.results = Append(@, ori)]
            ELSE qr[i]]
    ELSE Append(qr, [year |-> year, results |-> <<ori>>])

\* ------------------------------------------------------------------------
\* Dedup & merge of one year (lines 204-211)
\* ------------------------------------------------------------------------
ShortIds(results) == {results[i].short_id : i \in 1..Len(results)}

RECURSIVE NotIn(_, _)
NotIn(results, query_set) ==
    IF results = <<>> THEN <<>>
    ELSE (IF results[1].short_id \notin query_set THEN <<results[1]>> ELSE <<>>)
         \o NotIn(Tail(results), query_set)

\* lines 205-210: old_results extended by the items whose short_id is not
\* in query_set, the identifiers parsed from the document
MergeOld(old_results, results) ==
    old_results \o NotIn(results, ShortIds(old_results))

\* ------------------------------------------------------------------------
\* Seen-Set Store
\* ------------------------------------------------------------------------
\* a file that does not exist; a file holding text
Absent == [exists |-> FALSE, text |-> <<>>]
File(text) == [exists |-> TRUE, text |-> text]

SeqRange(seq) == {seq[i] : i \in 1..Len(seq)}

\* json.dumps(list(db_set)): the identifiers in the set's iteration order,
\* which is any order
Dumps(set) ==
    {seq \in [1..Cardinality(set) -> set] : SeqRange(seq) = set}

\* ShouldSave with the test left out: db.txt is written in every pass
ShouldSaveAlways(qr) == TRUE

\* line 242
ShouldSave(qr) == Len(qr) > 0

\* ------------------------------------------------------------------------
\* State
\* ------------------------------------------------------------------------
VARIABLES
    \* the configuration and the remote index, fixed during a behaviour
    query,
    feed,
    \* the archive on disk, per subject
    dir_exists,     \* arXiv_db/<subject> exists
    db_txt,         \* db.txt: Absent, or File(the JSON list of identifiers)
    md,             \* <year>.md: a function from the years that have a
                    \* document to its text
    \* crawler's position and locals
    pc,             \* "idle", "subject", "keyword", "fetch", "years", "save"
    sIdx,           \* position of the loop over query.items()
    kIdx,           \* position of the loop over key_words
    yIdx,           \* position of the loop over query_results.items()
    count,          \* results client.get(search) has yielded for this keyword
    db_set,
    query_results,
    \* history
    runs,           \* runs finished
    fetched,        \* results yielded so far, replayed ones excepted
    client,         \* "none", "ok", "failed": create_arxiv_client in this run
    mode,           \* "free", "record", "replay": whether the run's fetch
                    \* events are recorded, or repeat the recorded ones
    log,            \* the fetch events of this run (recorded or replayed)
    prev,           \* the fetch events of the previous run, if recorded
    written,        \* the files written in this run, in order
    loaded,         \* db_set as load_set returned it
    run_start,      \* db_txt and md when the run started
    searched,       \* <<sIdx, kIdx>> of the searches started in this run
    failed,         \* <<sIdx, kIdx>> of the searches that raised
    processed,      \* subjects whose pass reached its end in this run
    accepted,       \* per subject, the identifiers ever fetched for it with a
                    \* configured category
    refetched,      \* identifiers fetched in this pass while a document of
                    \* the subject held them
    \* renderer and parser applied to a list of records on their own
    rt_pc,          \* "off", "list", "rendered", "parsed"
    rt_in,          \* the list of records
    rt_doc,         \* the document rendered from it
    rt_out,         \* the records parsed from the document
    rt_new          \* the new records of a pass that are merged into it

env == <<query, feed>>
disk == <<dir_exists, db_txt, md>>
locals == <<pc, sIdx, kIdx, yIdx, count, db_set, query_results>>
history == <<runs, fetched, client, mode, log, prev, written, loaded, run_start,
             searched, failed, processed, accepted, refetched>>
rt == <<rt_pc, rt_in, rt_doc, rt_out, rt_new>>
vars == <<env, disk, locals, history, rt>>

NoLog == [ok |-> FALSE, events |-> <<>>]

\* subject that stays the first key of query: every pass works in the first
\* subject's directory
SubjectFirst == query[1].subject

subject == query[sIdx].subject
key_words == query[sIdx].key_words

\* a db.txt whose JSON text is incomplete: open(..., "w") of line 243 has
\* emptied the file and the process died before the text of line 245 reached
\* it
TornDb == [exists |-> TRUE, text |-> <<"[">>]

\* line 52: json.loads raises on the text of db.txt
LoadRaises(s) == dir_exists[s] /\ db_txt[s] = TornDb

\* load_set that never reads db.txt
load_set_empty(s) == {}

\* load_set (lines 40-53): the set it returns
load_set(s) ==
    IF ~dir_exists[s] THEN {}
    ELSE IF ~db_txt[s].exists THEN {}
    ELSE SeqRange(db_txt[s].text)

\* identifiers of the blocks in the year documents of subject s
DocIds(s) ==
    UNION { {b.short_id : b \in SeqRange(Blocks(md[s][y].sections))} :
            y \in DOMAIN md[s] }

\* the file <year>.md of a directory replaced by doc
PutFile(files, year, doc) ==
    [y \in DOMAIN files \cup {year} |-> IF y = year THEN doc ELSE files[y]]

\* the empty archive and a crawler that has not run
InitCrawler ==
    /\ dir_exists = [s \in Subjects |-> FALSE]
    /\ db_txt = [s \in Subjects |-> Absent]
    /\ md = [s \in Subjects |-> <<>>]
    /\ pc = "idle" /\ sIdx = 1 /\ kIdx = 1 /\ yIdx = 1 /\ count = 0
    /\ db_set = {} /\ query_results = <<>>
    /\ runs = 0 /\ fetched = 0 /\ client = "none" /\ mode = "free"
    /\ log = <<>> /\ prev = NoLog /\ written = <<>> /\ loaded = {}
    /\ run_start = [db_txt |-> db_txt, md |-> md]
    /\ searched = {} /\ failed = {} /\ processed = {}
    /\ accepted = [s \in Subjects |-> {}] /\ refetched = {}

Init ==
    /\ \E sc \in Scenarios : query = sc.query /\ feed = sc.feed
    /\ InitCrawler
    /\ rt_pc = "off" /\ rt_in = <<>> /\ rt_doc = Render(0, <<>>) /\ rt_out = <<>>
    /\ rt_new = <<>>

\* ------------------------------------------------------------------------
\* Actions
\* ------------------------------------------------------------------------
\* lines 117-126: a run starts and the client is created
StartRun(m) ==
    /\ pc = "idle" /\ runs < MaxRuns
    /\ m = "replay" => prev.ok
    /\ m = "record" => runs + 1 < MaxRuns
    /\ pc' = "subject" /\ sIdx' = 1
    /\ client' = "ok" /\ mode' = m /\ log' = <<>>
    /\ prev' = IF m = "replay" THEN prev ELSE NoLog
    /\ written' = <<>> /\ run_start' = [db_txt |-> db_txt, md |-> md]
    /\ searched' = {} /\ failed' = {} /\ processed' = {}
    /\ UNCHANGED <<env, rt, disk, kIdx, yIdx, count, db_set, query_results, runs, fetched,
                   loaded, accepted, refetched>>

\* lines 127-129: create_arxiv_client raised, crawler returns
ClientFails ==
    /\ pc = "idle" /\ runs < MaxRuns
    /\ client' = "failed" /\ mode' = "free" /\ log' = <<>> /\ prev' = NoLog
    /\ written' = <<>> /\ run_start' = [db_txt |-> db_txt, md |-> md]
    /\ searched' = {} /\ failed' = {} /\ processed' = {}
    /\ runs' = runs + 1
    /\ UNCHANGED <<env, rt, disk, locals, fetched, loaded, accepted, refetched>>

\* lines 131-135: the next subject's pass starts with load_set
BeginSubject ==
    /\ pc = "subject" /\ sIdx <= Len(query)
    /\ ~LoadRaises(subject)
    /\ db_set' = load_set(subject) /\ loaded' = load_set(subject)
    /\ dir_exists' = [dir_exists EXCEPT ![subject] = TRUE]
    /\ query_results' = <<>> /\ refetched' = {}
    /\ kIdx' = 1 /\ pc' = "keyword"
    /\ UNCHANGED <<env, rt, db_txt, md, sIdx, yIdx, count, runs, fetched, client, mode, log,
                   prev, written, run_start, searched, failed, processed, accepted>>

\* lines 138-149: the next keyword's search starts
Search ==
    /\ pc = "keyword" /\ kIdx <= Len(key_words)
    /\ pc' = "fetch" /\ count' = 0
    /\ searched' = searched \cup {<<sIdx, kIdx>>}
    /\ UNCHANGED <<env, rt, disk, sIdx, kIdx, yIdx, db_set, query_results, runs, fetched,
                   client, mode, log, prev, written, loaded, run_start, failed,
                   processed, accepted, refetched>>

\* the record's category set meets the configured set (what the history
\* variable accepted records, stated on sets rather than by the loop)
Configured(result) == SeqRange(result.categories) \cap subjectcategory # {}

\* whether the fetch adapter may produce this event now: a replaying run
\* repeats the recorded events, any other run is free within the bounds
MayFetch(ev, arg) ==
    IF mode = "replay"
    THEN /\ Len(log) < Len(prev.events)
         /\ prev.events[Len(log) + 1].ev = ev
         /\ prev.events[Len(log) + 1].arg = arg
    ELSE ev = "result" =>
            /\ fetched < MaxFetch
            /\ mode = "record" =>
                   Cardinality({i \in 1..Len(log) : log[i].ev = "result"}) < MaxRecorded

Logged(ev, arg) ==
    IF mode = "free" THEN log ELSE Append(log, [ev |-> ev, arg |-> arg])

\* lines 150-178: one iteration of the loop over client.get(search);
\* paper_count only feeds the log messages and is left out
FetchResult(result) ==
    /\ pc = "fetch" /\ count < MaxResults
    /\ MayFetch("result", result)
    /\ count' = count + 1
    /\ log' = Logged("result", result)
    /\ fetched' = IF mode = "replay" THEN fetched ELSE fetched + 1
    /\ accepted' = IF Configured(result)
                   THEN [accepted EXCEPT ![subject] = @ \cup {result.short_id}]
                   ELSE accepted
    /\ refetched' = IF result.short_id \in DocIds(subject)
                    THEN refetched \cup {result.short_id} ELSE refetched
    /\ IF InCategory(result) /\ ~AlreadySeen(result.short_id, db_set)
       THEN /\ db_set' = db_set \cup {result.short_id}
            /\ query_results' =
                   AppendQueryResult(query_results, result.updated[1], MakeOri(result))
       ELSE UNCHANGED <<db_set, query_results>>
    /\ UNCHANGED <<env, rt, disk, pc, sIdx, kIdx, yIdx, runs, client, mode, prev, written,
                   loaded, run_start, searched, failed, processed>>

\* line 180: the results are exhausted, the loop over key_words goes on
FetchEnd ==
    /\ pc = "fetch"
    /\ MayFetch("end", "-")
    /\ log' = Logged("end", "-")
    /\ pc' = "keyword" /\ kIdx' = kIdx + 1
    /\ UNCHANGED <<env, rt, disk, sIdx, yIdx, count, db_set, query_results, runs, fetched,
                   client, mode, prev, written, loaded, run_start, searched, failed,
                   processed, accepted, refetched>>

\* AfterFailure of a handler that lets the exception end the run
AfterFailureAbort == "idle"

\* where crawler continues after an except clause of lines 182-196
AfterFailure == "keyword"

\* KeptAfterFailure of a handler that starts the collection afresh
DroppedAfterFailure(qr) == <<>>

\* query_results after an except clause of lines 182-196: no handler
\* touches it
KeptAfterFailure(qr) == qr

\* lines 182-196: client.get raised; the handler logs, sleeps, and the loop
\* over key_words goes on
FetchFail(kind) ==
    /\ pc = "fetch"
    /\ MayFetch("fail", "-")
    /\ log' = Logged("fail", "-")
    /\ failed' = failed \cup {<<sIdx, kIdx>>}
    /\ pc' = AfterFailure
    /\ kIdx' = kIdx + 1
    /\ query_results' = KeptAfterFailure(query_results)
    /\ UNCHANGED <<env, rt, disk, sIdx, yIdx, count, db_set, runs,
                   fetched, client, mode, prev, written, loaded, run_start,
                   searched, processed, accepted, refetched>>

\* line 202, entered after the last keyword
BeginYears ==
    /\ pc = "keyword" /\ kIdx > Len(key_words)
    /\ pc' = "years" /\ yIdx' = 1
    /\ UNCHANGED <<env, rt, disk, sIdx, kIdx, count, db_set, query_results, history>>

\* lines 204-211: the records of the year's document
YearResults(files, year, results) ==
    SortResults(IF year \in DOMAIN files
                THEN MergeOld(load_markdown(files[year]), results)
                ELSE results)

\* lines 202-240: one iteration of the loop over query_results.items()
WriteYear ==
    /\ pc = "years" /\ yIdx <= Len(query_results)
    /\ LET year    == query_results[yIdx].year
           results == YearResults(md[subject], year, query_results[yIdx].results)
       IN  /\ md' = [md EXCEPT ![subject] = PutFile(@, year, Render(year, results))]
           /\ written' = Append(written,
                                [subject |-> subject, kind |-> "md", year |-> year])
    /\ yIdx' = yIdx + 1
    /\ UNCHANGED <<env, rt, dir_exists, db_txt, pc, sIdx, kIdx, count, db_set, query_results,
                   runs, fetched, client, mode, log, prev, loaded, run_start,
                   searched, failed, processed, accepted, refetched>>

EndYears ==
    /\ pc = "years" /\ yIdx > Len(query_results)
    /\ pc' = "save"
    /\ UNCHANGED <<env, rt, disk, sIdx, kIdx, yIdx, count, db_set, query_results, history>>

\* SavedSet that writes the set as it was loaded
SavedSetLoaded(seen, first) == first

\* line 244: what is written to db.txt
SavedSet(seen, first) == seen

\* lines 242-246, then the loop over query.items() goes on
SaveDb ==
    /\ pc = "save"
    /\ IF ShouldSave(query_results)
       THEN /\ \E text \in Dumps(SavedSet(db_set, loaded)) :
                   db_txt' = [db_txt EXCEPT ![subject] = File(text)]
            /\ written' = Append(written,
                                 [subject |-> subject, kind |-> "db", year |-> 0])
       ELSE UNCHANGED <<db_txt, written>>
    /\ processed' = processed \cup {subject}
    /\ pc' = "subject" /\ sIdx' = sIdx + 1
    /\ UNCHANGED <<env, rt, dir_exists, md, kIdx, yIdx, count, db_set, query_results, runs,
                   fetched, client, mode, log, prev, loaded, run_start, searched,
                   failed, accepted, refetched>>

\* line 248: crawler returns
Finish ==
    /\ pc = "subject" /\ sIdx > Len(query)
    /\ pc' = "idle"
    /\ runs' = runs + 1
    /\ prev' = IF mode = "record" THEN [ok |-> TRUE, events |-> log] ELSE NoLog
    /\ UNCHANGED <<env, rt, disk, sIdx, kIdx, yIdx, count, db_set, query_results, fetched, client,
                   mode, log, written, loaded, run_start, searched, failed,
                   processed, accepted, refetched>>

Next ==
    \/ \E m \in {"free", "record", "replay"} : StartRun(m)
    \/ ClientFails
    \/ BeginSubject
    \/ Search
    \/ \E result \in feed : FetchResult(result)
    \/ FetchEnd
    \/ \E kind \in FailureKinds : FetchFail(kind)
    \/ BeginYears
    \/ WriteYear
    \/ EndYears
    \/ SaveDb
    \/ Finish

Spec == Init /\ [][Next]_vars

\* ------------------------------------------------------------------------
\* Runs that can stop anywhere: the process is killed or the machine loses
\* power, at a statement boundary or inside one of the two file writes
\* ------------------------------------------------------------------------
\* a file of no text: no heading, no TOC line, no section
EmptyFile == [year |-> 0, toc |-> <<>>, sections |-> <<>>]

\* the sections up to the n-th <details> block of a document
RECURSIVE TakeBlocks(_, _)
TakeBlocks(sections, n) ==
    IF n = 0 \/ sections = <<>> THEN <<>>
    ELSE IF Len(sections[1].papers) <= n
         THEN <<sections[1]>> \o
              TakeBlocks(Tail(sections), n - Len(sections[1].papers))
         ELSE << [sections[1] EXCEPT !.papers = SubSeq(@, 1, n)] >>

\* lines 237-238: open(markdown_fp, "w") empties the file, f.write hands the
\* text to the file object, and leaving the with block flushes it.  What a
\* process that dies inside the statement leaves on disk: no text, or the
\* text up to some block.
TornTexts(doc) ==
    {EmptyFile} \cup
    { [doc EXCEPT !.sections = TakeBlocks(doc.sections, n)] :
        n \in 0..(Len(Blocks(doc.sections)) - 1) }

\* the process dies between two statements of crawler
Crash ==
    /\ pc # "idle"
    /\ pc' = "idle" /\ client' = "crashed" /\ runs' = runs + 1
    /\ UNCHANGED <<env, rt, disk, sIdx, kIdx, yIdx, count, db_set, query_results,
                   fetched, mode, log, prev, written, loaded, run_start,
                   searched, failed, processed, accepted, refetched>>

\* the process dies inside the write of a year document (lines 237-238)
CrashInWrite ==
    /\ pc = "years" /\ yIdx <= Len(query_results)
    /\ LET year    == query_results[yIdx].year
           results == YearResults(md[subject], year, query_results[yIdx].results)
       IN  \E text \in TornTexts(Render(year, results)) :
               md' = [md EXCEPT ![subject] = PutFile(@, year, text)]
    /\ pc' = "idle" /\ client' = "crashed" /\ runs' = runs + 1
    /\ UNCHANGED <<env, rt, dir_exists, db_txt, sIdx, kIdx, yIdx, count, db_set,
                   query_results, fetched, mode, log, prev, written, loaded,
                   run_start, searched, failed, processed, accepted, refetched>>

\* the process dies inside the write of db.txt (lines 243-245)
CrashInSave ==
    /\ pc = "save" /\ ShouldSave(query_results)
    /\ db_txt' = [db_txt EXCEPT ![subject] = TornDb]
    /\ pc' = "idle" /\ client' = "crashed" /\ runs' = runs + 1
    /\ UNCHANGED <<env, rt, dir_exists, md, sIdx, kIdx, yIdx, count, db_set,
                   query_results, fetched, mode, log, prev, written, loaded,
                   run_start, searched, failed, processed, accepted, refetched>>

\* line 134: load_set raises on a db.txt it cannot decode; the exception
\* leaves crawler and is caught at line 261
LoadSetFails ==
    /\ pc = "subject" /\ sIdx <= Len(query)
    /\ LoadRaises(subject)
    /\ pc' = "idle" /\ client' = "raised" /\ runs' = runs + 1
    /\ UNCHANGED <<env, rt, disk, sIdx, kIdx, yIdx, count, db_set, query_results,
                   fetched, mode, log, prev, written, loaded, run_start,
                   searched, failed, processed, accepted, refetched>>

NextCrash ==
    \/ StartRun("free")
    \/ BeginSubject
    \/ Search
    \/ \E result \in feed : FetchResult(result)
    \/ FetchEnd
    \/ \E kind \in FailureKinds : FetchFail(kind)
    \/ BeginYears
    \/ WriteYear
    \/ EndYears
    \/ SaveDb
    \/ Finish
    \/ Crash
    \/ CrashInWrite
    \/ CrashInSave
    \/ LoadSetFails

SpecCrash == Init /\ [][NextCrash]_vars

\* ------------------------------------------------------------------------
\* Renderer and parser on their own: a list of records of one year is
\* rendered to a document (lines 213-238) and the document is parsed
\* (load_markdown, lines 56-75)
\* ------------------------------------------------------------------------
\* an author name that holds the separator of the author line
CommaName == [title |-> <<"T">>, authors |-> << <<"A", ",", " ", "J">>, <<"B">> >>,
              summary |-> <<"s">>]

\* records as crawler builds them (lines 165-172), all of the year 2024
RecordPool ==
    { MakeOri(e) : e \in Entries(Ids, {t \in Times : t[1] = 2024}, {<<"cs.CV">>},
                                 {Plain, NoAuthors, NoSummary, CommaName}) }

RecordLists == UNION {[1..n -> RecordPool] : n \in 1..MaxLen}

InitRT ==
    /\ query = QueryOne /\ feed = FeedOne
    /\ InitCrawler
    /\ rt_pc = "list" /\ rt_in \in RecordLists
    /\ rt_doc = Render(0, <<>>) /\ rt_out = <<>> /\ rt_new = <<>>

RenderList ==
    /\ rt_pc = "list"
    /\ rt_doc' = Render(rt_in[1].updated_sorted[1], rt_in)
    /\ rt_pc' = "rendered"
    /\ UNCHANGED <<env, disk, locals, history, rt_in, rt_out, rt_new>>

ParseDocument ==
    /\ rt_pc = "rendered"
    /\ rt_out' = load_markdown(rt_doc)
    /\ rt_pc' = "parsed"
    /\ UNCHANGED <<env, disk, locals, history, rt_in, rt_doc, rt_new>>

NextRT == RenderList \/ ParseDocument

SpecRT == InitRT /\ [][NextRT]_vars

\* ------------------------------------------------------------------------
\* The merge of one year on its own (lines 204-238): a document an earlier
\* pass wrote is merged with the new records a pass found for its year
\* ------------------------------------------------------------------------
MergeIds == Ids \cup {"2402.00003v1"}

\* records as crawler builds them (lines 165-172), all of the year 2024
MergePool ==
    { MakeOri(e) : e \in Entries(MergeIds, {t \in Times : t[1] = 2024},
                                 {<<"cs.CV">>}, {Plain}) }

\* the non-empty lists of at most MaxLen records of distinct identifiers, as
\* one pass collects them under one year (lines 160-173)
MergeLists ==
    { l \in UNION {[1..n -> MergePool] : n \in 1..MaxLen} :
        \A i, j \in 1..Len(l) : l[i].short_id = l[j].short_id => i = j }

\* line 164: the year the records are collected under
MergeYearOf == rt_in[1].updated_sorted[1]

InitMerge ==
    /\ query = QueryOne /\ feed = FeedOne
    /\ InitCrawler
    /\ rt_pc = "first" /\ rt_in \in MergeLists /\ rt_new \in MergeLists
    /\ rt_doc = Render(0, <<>>) /\ rt_out = <<>>

\* lines 211-238 of the pass that created the document
WriteFirst ==
    /\ rt_pc = "first"
    /\ rt_doc' = Render(MergeYearOf, YearResults(<<>>, MergeYearOf, rt_in))
    /\ rt_pc' = "disk"
    /\ UNCHANGED <<env, disk, locals, history, rt_in, rt_out, rt_new>>

\* lines 204-238 of a later pass that found the records rt_new for the year
MergeYear ==
    /\ rt_pc = "disk"
    /\ rt_out' = load_markdown(rt_doc)
    /\ rt_doc' = Render(MergeYearOf,
                        YearResults([y \in {MergeYearOf} |-> rt_doc], MergeYearOf, rt_new))
    /\ rt_pc' = "merged"
    /\ UNCHANGED <<env, disk, locals, history, rt_in, rt_new>>

NextMerge == WriteFirst \/ MergeYear

SpecMerge == InitMerge /\ [][NextMerge]_vars

\* ------------------------------------------------------------------------
\* Vocabulary of the properties
\* ------------------------------------------------------------------------
\* a subject's pass is under way: between load_set and the end of line 246
InPass == client = "ok" /\ pc \in {"keyword", "fetch", "years", "save"}

\* a subject's pass has just ended, and its locals are still in memory
PassEnded == client = "ok" /\ pc \in {"subject", "idle"} /\ sIdx > 1

\* the run has returned from line 248
RunEnded == client = "ok" /\ pc = "idle"

\* the subject of the pass under way or just ended
PassSubject ==
    IF pc \in {"subject", "idle"} THEN query[sIdx - 1].subject ELSE query[sIdx].subject

\* identifiers of the new records the pass has found
NewIds == UNION {ShortIds(query_results[i].results) : i \in 1..Len(query_results)}

\* the blocks of one year document
DocBlocks(files, year) == Blocks(files[year].sections)

BlockIds(blocks) == {blocks[i].short_id : i \in 1..Len(blocks)}

\* the files of subject s written in this run, in order
WrittenBy(s) == SelectSeq(written, LAMBDA w : w.subject = s)

\* the persisted files of subject s are what they were when the run started
FilesUnchanged(s) == db_txt[s] = run_start.db_txt[s] /\ md[s] = run_start.md[s]

\* ------------------------------------------------------------------------
\* Properties
\* ------------------------------------------------------------------------

\* C1: starting from an empty archive, after any sequence of runs (any fetch
\* results, an identifier returned by several keywords or in several runs,
\* keywords failing part-way), no year document holds two records with the
\* same identifier.
C1_NoDuplicateIdentifiers ==
    \A s \in Subjects : \A y \in DOMAIN md[s] :
        LET blocks == DocBlocks(md[s], y)
        IN  \A i, j \in 1..Len(blocks) :
                blocks[i].short_id = blocks[j].short_id => i = j

\* an identifier held by a year document was fetched again, and the run
\* rewrote that document
C1_Witness ==
    /\ InPass \/ PassEnded
    /\ \E i \in refetched : \E y \in DOMAIN md[PassSubject] :
          /\ i \in BlockIds(DocBlocks(md[PassSubject], y))
          /\ \E k \in 1..Len(written) :
                written[k] = [subject |-> PassSubject, kind |-> "md", year |-> y]

\* C2: the merge never loses an entry: every record that was in a year
\* document before it is rewritten is in it afterwards, with the same texts,
\* and the rewritten document holds exactly the old records and the newly
\* fetched records whose identifier was not already present.
C2_NoEntryLost ==
    [][\A s \in Subjects : \A y \in DOMAIN md[s] :
          md'[s][y] # md[s][y] =>
             LET old   == DocBlocks(md[s], y)
                 new   == DocBlocks(md'[s], y)
                 fresh == {PaperBlock(query_results[yIdx].results[i]) :
                             i \in 1..Len(query_results[yIdx].results)}
             IN  SeqRange(new) =
                    SeqRange(old) \cup
                    {b \in fresh : b.short_id \notin BlockIds(old)}]_vars

\* C3: idempotence: a run whose fetch results are identical to those of the
\* run before it writes no file, and leaves db.txt and every year document
\* as that run left them.
C3_Idempotent ==
    (client = "ok" /\ mode = "replay") =>
        /\ written = <<>>
        /\ db_txt = run_start.db_txt
        /\ md = run_start.md

\* a run that found a new record and wrote it has been repeated to its end
C3_Witness ==
    /\ RunEnded /\ mode = "replay"
    /\ \E i \in 1..Len(log) :
          /\ log[i].ev = "result"
          /\ \E s \in Subjects : log[i].arg.short_id \in DocIds(s)

\* C4: a fetched record none of whose categories is configured is never added
\* to the SeenSet, in memory or on disk, and never appears in a document:
\* whatever they hold was fetched for the subject with a configured category.
C4_CategoryFilter ==
    /\ \A s \in Subjects : load_set(s) \cup DocIds(s) \subseteq accepted[s]
    /\ (InPass \/ PassEnded) => db_set \cup NewIds \subseteq accepted[PassSubject]

\* a recorded run has fetched a record outside the categories, and ended
C4_Witness ==
    /\ RunEnded /\ mode = "record"
    /\ \E i \in 1..Len(log) :
          /\ log[i].ev = "result"
          /\ ~Configured(log[i].arg)
          /\ \A s \in Subjects : log[i].arg.short_id \notin load_set(s)

\* C5: a pass in which no keyword yields a new record writes no year
\* document and no db.txt: the subject's files are unchanged.
C5_NoNewNoWrite ==
    ((InPass \/ PassEnded) /\ query_results = <<>>) =>
        /\ WrittenBy(PassSubject) = <<>>
        /\ FilesUnchanged(PassSubject)

\* a pass over an archive that has documents ended without a new record,
\* after a search that raised
C5_Witness ==
    /\ PassEnded /\ query_results = <<>>
    /\ \E k \in 1..Len(query[sIdx - 1].key_words) : <<sIdx - 1, k>> \in failed
    /\ run_start.md[PassSubject] # <<>>

\* C6, as stated: whenever a year document holds identifier i and a fetch
\* returns i again, the run writes no file and leaves the SeenSet and the
\* document unchanged.
C6_RefetchNoWrite ==
    (PassEnded /\ refetched # {}) =>
        /\ WrittenBy(PassSubject) = <<>>
        /\ FilesUnchanged(PassSubject)

\* C6, amended: when a year document holds identifier i, the loaded SeenSet
\* holds i and a fetch returns i again, that result is skipped (it joins
\* neither the SeenSet nor the new records), and if the pass finds no new
\* record it writes no file and leaves the SeenSet and the documents unchanged.
C6_RefetchSkipped ==
    (InPass \/ PassEnded) =>
        \A i \in refetched \cap loaded :
            /\ i \notin NewIds
            /\ NewIds = {} =>
                  /\ db_set = loaded
                  /\ WrittenBy(PassSubject) = <<>>
                  /\ FilesUnchanged(PassSubject)

\* a pass fetched only an identifier its documents and SeenSet held, and ended
C6_Witness ==
    /\ PassEnded /\ refetched # {} /\ refetched \subseteq loaded
    /\ NewIds = {} /\ failed = {}

\* what the round trip compares of a record
Fields(r) == <<r.short_id, r.title, r.authors, r.updated, r.summary, r.pdf_url>>

\* C7: round trip: rendering a list of records of one year and parsing the
\* document yields the same set of records, compared by identifier, title,
\* authors, timestamp, summary and pdf link, whatever the order of the list.
C7_RoundTrip ==
    rt_pc = "parsed" =>
        {Fields(rt_out[i]) : i \in 1..Len(rt_out)} =
        {Fields(rt_in[i]) : i \in 1..Len(rt_in)}

\* the searches and subjects of the configuration
AllSearches ==
    UNION {{<<i, k>> : k \in 1..Len(query[i].key_words)} : i \in 1..Len(query)}

\* the crawler has a next step: it is at a loop head, or the fetch adapter
\* has an event for the search under way
CanStep ==
    \/ pc \in {"subject", "keyword", "years", "save"}
    \/ /\ pc = "fetch"
       /\ \/ MayFetch("end", "-")
          \/ MayFetch("fail", "-")
          \/ \E result \in feed : count < MaxResults /\ MayFetch("result", result)

\* C8: no failure raised while fetching a keyword stops the run: the run goes
\* on until it returns, and when it returns every keyword of every subject
\* has been searched and every subject's pass has been completed.
C8_FailuresDoNotStop ==
    client = "ok" =>
        /\ pc # "idle" => CanStep
        /\ pc = "idle" =>
              /\ searched = AllSearches
              /\ processed = {query[i].subject : i \in 1..Len(query)}

\* a run in which the first search raised has returned
C8_Witness ==
    /\ RunEnded /\ <<1, 1>> \in failed
    /\ Len(query) > 1

\* C9: in a pass db.txt is written exactly when a new record was found, at
\* most once, and after every year document of the pass; it then stores the
\* set loaded at the start of the pass plus the identifiers of the new records.
C9_SeenSetSaved ==
    LET W == WrittenBy(PassSubject)
    IN  /\ InPass => \A i \in 1..Len(W) : W[i].kind = "md"
        /\ PassEnded =>
              IF query_results = <<>> THEN W = <<>>
              ELSE /\ Len(W) = Len(query_results) + 1
                   /\ \A i \in 1..Len(query_results) :
                         W[i].kind = "md" /\ W[i].year = query_results[i].year
                   /\ W[Len(W)].kind = "db"
                   /\ db_txt[PassSubject].exists
                   /\ SeqRange(db_txt[PassSubject].text) = loaded \cup NewIds
                   /\ Len(db_txt[PassSubject].text) = Cardinality(loaded \cup NewIds)

\* a pass that loaded a non-empty SeenSet found a new record, wrote its year
\* document and db.txt, and ended
C9_Witness ==
    /\ PassEnded /\ loaded # {} /\ NewIds # {}
    /\ Len(WrittenBy(PassSubject)) >= 2

\* C10: within every section of every year document the records are in
\* non-decreasing order of update timestamp.
C10_SectionsSorted ==
    \A s \in Subjects : \A y \in DOMAIN md[s] :
        \A k \in 1..Len(md[s][y].sections) :
            LET papers == md[s][y].sections[k].papers
            IN  \A i \in 1..(Len(papers) - 1) :
                    ~TupleLess(papers[i + 1].updated, papers[i].updated)

\* a run merged a new record into a section in front of a later record that
\* was parsed from the document on disk
C10_Witness ==
    \E s \in Subjects : \E y \in DOMAIN md[s] \cap DOMAIN run_start.md[s] :
        \E k \in 1..Len(md[s][y].sections) :
            LET papers == md[s][y].sections[k].papers
                before == BlockIds(DocBlocks(run_start.md[s], y))
            IN  /\ Len(papers) >= 2
                /\ TupleLess(papers[1].updated, papers[2].updated)
                /\ papers[1].short_id \notin before
                /\ papers[2].short_id \in before

\* ------------------------------------------------------------------------
\* Properties of runs that can stop anywhere
\* ------------------------------------------------------------------------
\* no year document of subject s holds an identifier twice
NoSecondCopy(s) ==
    \A y \in DOMAIN md[s] :
        LET blocks == DocBlocks(md[s], y)
        IN  \A i, j \in 1..Len(blocks) :
                blocks[i].short_id = blocks[j].short_id => i = j

\* every identifier the year documents of subject s held when the run
\* started is in the same document now
OldIdsKept(s) ==
    \A y \in DOMAIN run_start.md[s] :
        BlockIds(DocBlocks(run_start.md[s], y)) \subseteq BlockIds(DocBlocks(md[s], y))

\* C11: a crash of the run at any point never corrupts a year document that
\* was already on disk: at every crash point each such document is either
\* exactly its content from before the run or a complete document with its
\* heading that holds all the old records, never a partial document or one
\* missing old records.
C11_CrashKeepsDocuments ==
    \A s \in Subjects : \A y \in DOMAIN run_start.md[s] :
        \/ md[s][y] = run_start.md[s][y]
        \/ /\ md[s][y].year = y
           /\ SeqRange(DocBlocks(run_start.md[s], y)) \subseteq
                  SeqRange(DocBlocks(md[s], y))

\* identifiers the pass fetched again and took as new although a year
\* document of the subject held them: the loaded SeenSet lacked them
TakenAgain == (refetched \cap db_set) \ loaded

\* C12: double-check dedup: when the persisted SeenSet is missing or lacks
\* the identifiers of records already in a year document, a run that fetches
\* those records again adds no second copy of them to the document, keeps
\* every existing record, and ends with those identifiers in the persisted
\* SeenSet.
C12_DoubleCheckDedup ==
    (PassEnded /\ TakenAgain # {}) =>
        /\ NoSecondCopy(PassSubject)
        /\ OldIdsKept(PassSubject)
        /\ db_txt[PassSubject].exists
        /\ TakenAgain \subseteq SeqRange(db_txt[PassSubject].text)

\* the identifiers db.txt of subject s stores; a torn db.txt stores none
StoredIds(s) ==
    IF db_txt[s].exists /\ db_txt[s] # TornDb THEN SeqRange(db_txt[s].text) ELSE {}

\* C18: starting from an empty archive, at every point of every run (so also
\* if the run crashes at that point) every identifier stored in the persisted
\* db.txt has its record in some persisted year document of the subject.
C18_SeenHaveRecords ==
    \A s \in Subjects : StoredIds(s) \subseteq DocIds(s)

\* ------------------------------------------------------------------------
\* Properties of the year documents
\* ------------------------------------------------------------------------
\* the new records the pass has found, and the years of their timestamps
NewRecords == UNION {SeqRange(query_results[i].results) : i \in 1..Len(query_results)}

NewYears == {r.updated[1] : r \in NewRecords}

\* the years of the documents subject s had written in this run
YearsWritten(s) ==
    LET W == SelectSeq(WrittenBy(s), LAMBDA w : w.kind = "md")
    IN  [i \in 1..Len(W) |-> W[i].year]

\* C13: every record in the document <year>.md has an update timestamp whose
\* year is <year>, after any sequence of runs; a run that fetches new records
\* of k distinct update years writes exactly k year documents, one per year,
\* each receiving exactly the new records of its year.
C13_DocumentsByYear ==
    /\ \A s \in Subjects : \A y \in DOMAIN md[s] :
           /\ md[s][y].year = y
           /\ \A b \in SeqRange(DocBlocks(md[s], y)) : b.updated[1] = y
    /\ PassEnded =>
           LET s == PassSubject
               Y == YearsWritten(s)
           IN  /\ Len(Y) = Cardinality(NewYears)
               /\ SeqRange(Y) = NewYears
               /\ \A y \in NewYears :
                      {b \in SeqRange(DocBlocks(md[s], y)) : b.short_id \in NewIds} =
                      {PaperBlock(r) : r \in {x \in NewRecords : x.updated[1] = y}}

\* a pass found new records of two years, wrote both documents, and ended
C13_Witness ==
    /\ PassEnded /\ Cardinality(NewYears) = 2
    /\ Len(YearsWritten(PassSubject)) = 2

\* the year-months of the records of a document
DocYearMonths(doc) == {YearMonth(b.updated) : b \in SeqRange(Blocks(doc.sections))}

\* C14: in every year document the crawler writes, the table of contents has
\* exactly one entry per distinct year-month of the document's records, in
\* ascending order, and the body has exactly one section per entry of the
\* table of contents, containing exactly the records of that year-month.
C14_TocAndSections ==
    \A s \in Subjects : \A y \in DOMAIN md[s] :
        LET doc  == md[s][y]
            toc  == doc.toc
            secs == doc.sections
        IN  /\ SeqRange(toc) = DocYearMonths(doc)
            /\ Len(toc) = Cardinality(DocYearMonths(doc))
            /\ \A i \in 1..(Len(toc) - 1) : TupleLess(toc[i], toc[i + 1])
            /\ Len(secs) = Len(toc)
            /\ {secs[k].ym : k \in 1..Len(secs)} = SeqRange(toc)
            /\ \A k \in 1..Len(secs) :
                   /\ secs[k].papers # <<>>
                   /\ \A b \in SeqRange(secs[k].papers) : YearMonth(b.updated) = secs[k].ym

\* a document holds two records of one year-month in one section
C14_Witness ==
    \E s \in Subjects : \E y \in DOMAIN md[s] :
        /\ Len(md[s][y].toc) = 1
        /\ Len(md[s][y].sections[1].papers) = 2

\* the year-months of the '## ym' headings of a document, in file order
SectionOrder(doc) == [k \in 1..Len(doc.sections) |-> doc.sections[k].ym]

\* C15: body sections are emitted in the order their year-month is first met
\* in the sorted record list, independently of the sorted table of contents;
\* in every document the crawler can write the sequence of body sections is
\* the sequence of the entries of the table of contents.
C15_SectionsFollowToc ==
    \A s \in Subjects : \A y \in DOMAIN md[s] :
        SectionOrder(md[s][y]) = md[s][y].toc

\* a run merged a new record of an earlier month into a document that held
\* a record of a later month: the new section comes first
C15_Witness ==
    \E s \in Subjects : \E y \in DOMAIN md[s] \cap DOMAIN run_start.md[s] :
        LET secs   == md[s][y].sections
            before == BlockIds(DocBlocks(run_start.md[s], y))
        IN  /\ Len(secs) = 2
            /\ BlockIds(secs[1].papers) \cap before = {}
            /\ BlockIds(secs[2].papers) \subseteq before

\* the place of identifier id in a list of records or blocks
PosOf(seq, id) == CHOOSE i \in 1..Len(seq) : seq[i].short_id = id

\* C16: the per-year sort is stable: among records of one year document with
\* identical update timestamps, the records already in the document keep
\* their previous relative order and precede the records added by this run,
\* and the added records keep the order in which they were fetched.
C16_StableSort ==
    [][(rt_pc = "disk" /\ rt_pc' = "merged") =>
          LET old   == Blocks(rt_doc.sections)
              new   == Blocks(rt_doc'.sections)
              fresh == rt_new
          IN  \A p, q \in 1..Len(new) :
                 (p < q /\ new[p].updated = new[q].updated) =>
                    LET a == new[p].short_id
                        b == new[q].short_id
                    IN  /\ (a \in BlockIds(old) /\ b \in BlockIds(old)) =>
                               PosOf(old, a) < PosOf(old, b)
                        /\ ~(a \notin BlockIds(old) /\ b \in BlockIds(old))
                        /\ (a \notin BlockIds(old) /\ b \notin BlockIds(old)) =>
                               PosOf(fresh, a) < PosOf(fresh, b)]_vars

\* a document that held two records of one timestamp was merged with a new
\* record of the same timestamp
C16_Witness ==
    /\ rt_pc = "merged"
    /\ LET blocks == Blocks(rt_doc.sections)
       IN  /\ Len(blocks) = 3
           /\ blocks[1].updated = blocks[3].updated
           /\ {blocks[1].short_id, blocks[2].short_id} = ShortIds(rt_in)
           /\ blocks[3].short_id \in ShortIds(rt_new)

\* C17: a run rewrites only the year documents of years for which it found
\* at least one new record; every other year document of the subject, and
\* every file of every other subject's directory, is left unchanged: a step
\* creates or changes a year document only in the pass of its subject and
\* for a year of a new record, changes db.txt only in the pass of its
\* subject, creates a directory only for the subject whose pass starts, and
\* removes no document.
C17_OnlyTouchedYears ==
    [][\A s \in Subjects :
          /\ DOMAIN md[s] \subseteq DOMAIN md'[s]
          /\ \A y \in DOMAIN md'[s] :
                 (y \notin DOMAIN md[s] \/ md'[s][y] # md[s][y]) =>
                     InPass /\ s = PassSubject /\ y \in NewYears
          /\ db_txt'[s] # db_txt[s] =>
                 InPass /\ s = PassSubject /\ NewRecords # {}
          /\ dir_exists'[s] # dir_exists[s] =>
                 pc = "subject" /\ sIdx <= Len(query) /\ s = query[sIdx].subject]_vars

\* a pass wrote the document of one year and ended, and the subject's
\* document of another year is as it was when the run started
C17_Witness ==
    /\ PassEnded
    /\ \E y \in DOMAIN md[PassSubject] : \E z \in DOMAIN run_start.md[PassSubject] :
          /\ y # z
          /\ <<y>> = YearsWritten(PassSubject)
          /\ md[PassSubject][z] = run_start.md[PassSubject][z]

\* a search of the subject whose pass has ended raised
PassHadFailure == \E k \in 1..Len(query[sIdx - 1].key_words) : <<sIdx - 1, k>> \in failed

\* C19: when a keyword's fetch fails part-way, the new records it yielded
\* before the failure are kept: every record the pass took as new is among
\* its new records at the end of the pass, is in the document of its year,
\* and has its identifier in db.txt, together with the results of the other
\* keywords.
C19_PartialResultsKept ==
    (PassEnded /\ PassHadFailure) =>
        LET s == PassSubject
        IN  /\ db_set \ loaded \subseteq NewIds
            /\ \A r \in NewRecords :
                   /\ r.updated[1] \in DOMAIN md[s]
                   /\ PaperBlock(r) \in SeqRange(DocBlocks(md[s], r.updated[1]))
                   /\ db_txt[s].exists
                   /\ r.short_id \in SeqRange(db_txt[s].text)

\* the first keyword of a subject yielded a new record and raised, the
\* second yielded one new record and ended, and the pass has ended: the
\* pass found two new records and the last search yielded one of them
C19_Witness ==
    /\ PassEnded /\ sIdx = 2 /\ Len(query[1].key_words) = 2
    /\ <<1, 1>> \in failed /\ <<1, 2>> \notin failed
    /\ count = 1 /\ Cardinality(NewIds) = 2

====
